---------------------------- MODULE Spec2Model ----------------------------
(***************************************************************************)
(* A model of the Aivora Desk local worker (src/Aivora.py): the job        *)
(* polling loop worker_main, the XCommentBot run (login, spreadsheet       *)
(* load, per-row processing with retries, ledger write-back) and the       *)
(* reports sent to the remote job queue.                                   *)
(*                                                                         *)
(* Text is modelled as a sequence of one-character strings, so that        *)
(* strip/lower/upper/replace and substring tests are computed as the       *)
(* Python code computes them.                                              *)
(***************************************************************************)
EXTENDS Integers, Sequences, FiniteSets, TLC

(***************************************************************************)
(* Bounds of the model (not program constants).                            *)
(***************************************************************************)
MaxRows == 2

MaxJobs == 2

MaxRuns == 2

MaxCrashes == 1

MaxIdlePolls == 1

(* per-item windows a run may leave open behind it *)
MaxLeaks == 1

(***************************************************************************)
(* Program constants.                                                      *)
(***************************************************************************)
MAX_POLLS == 1000

max_retries == 3

timeout_seconds == 900

-----------------------------------------------------------------------------
(***************************************************************************)
(* Text helpers: str.strip, str.lower, str.upper, str.replace, "in".       *)
(***************************************************************************)
UpperLetters == <<"A","B","C","D","E","F","G","H","I","J","K","L","M",
                  "N","O","P","Q","R","S","T","U","V","W","X","Y","Z">>

LowerLetters == <<"a","b","c","d","e","f","g","h","i","j","k","l","m",
                  "n","o","p","q","r","s","t","u","v","w","x","y","z">>

IsSpace(c) == c \in {" ", "\t", "\n", "\r"}

LowerChar(c) ==
    IF \E i \in 1..26 : UpperLetters[i] = c
    THEN LowerLetters[CHOOSE i \in 1..26 : UpperLetters[i] = c]
    ELSE c

UpperChar(c) ==
    IF \E i \in 1..26 : LowerLetters[i] = c
    THEN UpperLetters[CHOOSE i \in 1..26 : LowerLetters[i] = c]
    ELSE c

Lower(s) == [i \in 1..Len(s) |-> LowerChar(s[i])]

Upper(s) == [i \in 1..Len(s) |-> UpperChar(s[i])]

RECURSIVE LStrip(_)
LStrip(s) == IF s # <<>> /\ IsSpace(Head(s)) THEN LStrip(Tail(s)) ELSE s

RECURSIVE RStrip(_)
RStrip(s) ==
    IF s # <<>> /\ IsSpace(s[Len(s)]) THEN RStrip(SubSeq(s, 1, Len(s) - 1)) ELSE s

Strip(s) == RStrip(LStrip(s))

ReplaceChar(s, a, b) == [i \in 1..Len(s) |-> IF s[i] = a THEN b ELSE s[i]]

Contains(sub, s) ==
    \E i \in 0..(Len(s) - Len(sub)) : SubSeq(s, i + 1, i + Len(sub)) = sub

StartsWith(s, pre) == Len(s) >= Len(pre) /\ SubSeq(s, 1, Len(pre)) = pre

(***************************************************************************)
(* Literal texts of the source.                                            *)
(***************************************************************************)
T_url == <<"u","r","l">>

T_posturl == <<"p","o","s","t","u","r","l">>

T_tweet_url == <<"t","w","e","e","t","_","u","r","l">>

T_link == <<"l","i","n","k">>

T_post_link == <<"p","o","s","t","_","l","i","n","k">>

T_post == <<"p","o","s","t">>

T_tweet == <<"t","w","e","e","t">>

T_generated_comment ==
    <<"g","e","n","e","r","a","t","e","d","_","c","o","m","m","e","n","t">>

T_comment == <<"c","o","m","m","e","n","t">>

T_reply == <<"r","e","p","l","y">>

T_comment_text == <<"c","o","m","m","e","n","t","_","t","e","x","t">>

T_generatedcomment ==
    <<"g","e","n","e","r","a","t","e","d","c","o","m","m","e","n","t">>

T_generated == <<"g","e","n","e","r","a","t","e","d">>

T_commented_yn == <<"c","o","m","m","e","n","t","e","d","_","(","y","/","n",")">>

T_commented == <<"c","o","m","m","e","n","t","e","d">>

T_done == <<"d","o","n","e">>

T_posted == <<"p","o","s","t","e","d">>

T_status == <<"s","t","a","t","u","s">>

T_Commented_YN == <<"C","o","m","m","e","n","t","e","d"," ","(","Y","/","N",")">>

T_Unnamed == <<"U","n","n","a","m","e","d">>

T_nan == <<"n","a","n">>

T_Y == <<"Y">>

T_N == <<"N">>

T_YES == <<"Y","E","S">>

T_TRUE == <<"T","R","U","E">>

T_1 == <<"1">>

T_empty == <<>>

(* The value None of an Optional[str]: no text is equal to it. *)
None == <<"None">>

-----------------------------------------------------------------------------
(***************************************************************************)
(* A decoded table (what pd.read_excel / pd.read_csv hand to the loader):  *)
(* ok says whether the bytes could be read as a table at all, cols are the *)
(* header texts and rows the cells.  A cell is a blank (NaN), a text, or   *)
(* a whole number.                                                         *)
(***************************************************************************)
NaN == [t |-> "nan", v |-> <<>>]

Txt(s) == [t |-> "str", v |-> s]

Num(s) == [t |-> "num", v |-> s]

NRows(ds) == Len(ds.rows)

NCols(ds) == Len(ds.cols)

Unreadable == [ok |-> FALSE, cols |-> <<>>, rows |-> <<>>]

(* The dtype pandas gives column i: whole numbers without a blank stay    *)
(* int64, whole numbers with a blank (and an all-blank column) become      *)
(* float64, a column holding any text is object.                           *)
Dtype(ds, i) ==
    IF \E r \in 1..NRows(ds) : ds.rows[r][i].t = "str" THEN "object"
    ELSE IF \E r \in 1..NRows(ds) : ds.rows[r][i].t = "nan" THEN "float64"
    ELSE IF NRows(ds) = 0 THEN "object"
    ELSE "int64"

(* Series.astype(str) of one cell of a column of the given dtype. *)
AsStr(cell, dtype) ==
    CASE cell.t = "nan" -> T_nan
      [] cell.t = "str" -> cell.v
      [] cell.t = "num" -> IF dtype = "float64" THEN cell.v \o <<".", "0">> ELSE cell.v

-----------------------------------------------------------------------------
(***************************************************************************)
(* XCommentBot._normalize and XCommentBot._detect_column.                  *)
(***************************************************************************)
_normalize(col) == ReplaceChar(ReplaceChar(Lower(Strip(col)), " ", "_"), "-", "_")

UrlAliases == {T_url, T_posturl, T_tweet_url, T_link, T_post_link}

CommentAliases ==
    {T_generated_comment, T_comment, T_reply, T_comment_text, T_generatedcomment}

IsUrlLike(norm) ==
    \/ norm \in UrlAliases
    \/ /\ Contains(T_url, norm)
       /\ (Contains(T_post, norm) \/ Contains(T_tweet, norm) \/ norm = T_url)

IsCommentLike(norm) ==
    \/ norm \in CommentAliases
    \/ Contains(T_comment, norm)
    \/ Contains(T_reply, norm)
    \/ (Contains(T_generated, norm) /\ Contains(T_comment, norm))

(* candidates, in column order *)
Candidates(norm_cols, raw_cols, want) ==
    LET hit(k) == IF want = "url" THEN IsUrlLike(norm_cols[k])
                  ELSE IF want = "comment" THEN IsCommentLike(norm_cols[k])
                  ELSE FALSE
        ks == SelectSeq([k \in 1..Len(raw_cols) |-> k], hit)
    IN  [j \in 1..Len(ks) |-> raw_cols[ks[j]]]

_detect_column(norm_cols, raw_cols, want) ==
    LET candidates == Candidates(norm_cols, raw_cols, want)
    IN  IF Len(candidates) > 0 THEN candidates[1] ELSE None

(***************************************************************************)
(* XCommentBot.load_spreadsheet, as a function of the decoded table.       *)
(***************************************************************************)
StatusCandidates == {T_commented_yn, T_commented, T_done, T_posted, T_status}

CompletionMarkers == {T_Y, T_YES, T_TRUE, T_1}

ColAllNaN(ds, i) == \A r \in 1..NRows(ds) : ds.rows[r][i].t = "nan"

(* df.columns after the strip of line 427 *)
StrippedCols(ds) == [i \in 1..NCols(ds) |-> Strip(ds.cols[i])]

(* positions of the columns line 428 keeps *)
KeptIdx(ds) ==
    LET keep(i) == ~(StartsWith(StrippedCols(ds)[i], T_Unnamed) /\ ColAllNaN(ds, i))
    IN  SelectSeq([i \in 1..NCols(ds) |-> i], keep)

(* positions, in the table, of the df columns called name *)
ColsNamed(ds, name) ==
    {KeptIdx(ds)[k] : k \in {j \in 1..Len(KeptIdx(ds)) : StrippedCols(ds)[KeptIdx(ds)[j]] = name}}

(* the status column detected or the default name (lines 460-468) *)
DetectStatusCol(norm_cols, raw_cols) ==
    LET ks == SelectSeq([k \in 1..Len(raw_cols) |-> k],
                        LAMBDA k : norm_cols[k] \in StatusCandidates)
    IN  IF Len(ks) > 0 THEN raw_cols[ks[1]] ELSE T_Commented_YN

(* self.original_df[status_col] = "" : a new last column of empty texts *)
AddColumn(ds, name) ==
    [ds EXCEPT !.cols = Append(@, name),
               !.rows = [r \in 1..NRows(ds) |-> Append(ds.rows[r], Txt(T_empty))]]

already_marker(text) == Strip(Upper(text)) \in CompletionMarkers

(* the cleaned comment text of lines 451-457 *)
CleanComment(text) == Strip(ReplaceChar(ReplaceChar(text, "\n", " "), "\r", " "))

RowUsable(url, comment) ==
    /\ Len(url) > 0
    /\ Len(comment) > 0
    /\ Lower(url) # T_nan
    /\ Lower(comment) # T_nan

(* the one element of a one-element set *)
Only(S) == CHOOSE x \in S : TRUE

(* Lines 427-468 on the header: the column names after the strip and the   *)
(* drop of empty Unnamed columns, their normal forms, and the columns      *)
(* detected for the target, the payload and the status.                    *)
DetectColumns(ds) ==
    LET kept == KeptIdx(ds)
        raw_cols == [k \in 1..Len(kept) |-> StrippedCols(ds)[kept[k]]]
        norm_cols == [k \in 1..Len(kept) |-> _normalize(raw_cols[k])]
    IN  [url_col |-> _detect_column(norm_cols, raw_cols, "url"),
         comment_col |-> _detect_column(norm_cols, raw_cols, "comment"),
         status_col |-> DetectStatusCol(norm_cols, raw_cols)]

(* a variant that names only the first column found missing *)
Missing_FirstOnly(hd) ==
    IF hd.url_col = None THEN <<"URL-like column">>
    ELSE IF hd.comment_col = None THEN <<"comment-like column">>
    ELSE <<>>

(* lines 439-442: the columns the error message names *)
Missing(hd) ==
    (IF hd.url_col = None THEN <<"URL-like column">> ELSE <<>>) \o
    (IF hd.comment_col = None THEN <<"comment-like column">> ELSE <<>>)

(* The positions df[url_col], df[comment_col] and df[status_col] select,   *)
(* and whether line 470 has to create the status column in the ledger.     *)
SelectColumns(ds, hd) ==
    [ucols |-> ColsNamed(ds, hd.url_col),
     ccols |-> ColsNamed(ds, hd.comment_col),
     scols |-> ColsNamed(ds, hd.status_col),
     created |-> \A i \in 1..NCols(ds) : ds.cols[i] # hd.status_col]

(* Lines 450-495: the texts of the three columns and the two filters. *)
LoadRows(ds, hd, cs) ==
    LET ledger == IF cs.created THEN AddColumn(ds, hd.status_col) ELSE ds
        dup_payload == Cardinality(cs.ucols) > 1 \/ Cardinality(cs.ccols) > 1
    IN  IF dup_payload \/ Cardinality(cs.scols) > 1
        THEN \* df[name] is a DataFrame: .str raises AttributeError
             [outcome |-> "error", has_ledger |-> TRUE,
              ledger |-> IF dup_payload THEN ds ELSE ledger,
              status_col |-> IF dup_payload THEN None ELSE hd.status_col,
              url_col |-> hd.url_col, comment_col |-> hd.comment_col,
              created |-> cs.created /\ ~dup_payload,
              missing |-> <<>>, workset |-> <<>>]
        ELSE
        LET u == CHOOSE i \in cs.ucols : TRUE
            c == CHOOSE i \in cs.ccols : TRUE
            URL(r) == Strip(AsStr(ds.rows[r][u], Dtype(ds, u)))
            generated_comment(r) == CleanComment(AsStr(ds.rows[r][c], Dtype(ds, c)))
            already(r) ==
                /\ cs.scols # {}
                /\ LET s == CHOOSE i \in cs.scols : TRUE
                   IN  already_marker(AsStr(ds.rows[r][s], Dtype(ds, s)))
            keep(r) == RowUsable(URL(r), generated_comment(r)) /\ ~already(r)
            rs == SelectSeq([r \in 1..NRows(ds) |-> r], keep)
        IN  [outcome |-> "ok", has_ledger |-> TRUE, ledger |-> ledger,
             status_col |-> hd.status_col, url_col |-> hd.url_col,
             comment_col |-> hd.comment_col, created |-> cs.created,
             missing |-> <<>>,
             workset |-> [j \in 1..Len(rs) |->
                            [idx |-> rs[j] - 1, url |-> URL(rs[j]),
                             comment |-> generated_comment(rs[j])]]]

(* The result of load_spreadsheet(ds): how it ends, the ledger           *)
(* (self.original_df, None when the copy was never taken), the name kept  *)
(* in self._status_col_name, and the rows returned, in order, each with   *)
(* its index label idx (0-based).                                         *)
load_spreadsheet(ds) ==
    IF ~ds.ok
    THEN [outcome |-> "unreadable", has_ledger |-> FALSE, ledger |-> Unreadable,
          status_col |-> None, url_col |-> None, comment_col |-> None,
          created |-> FALSE, missing |-> <<>>, workset |-> <<>>]
    ELSE Only({ IF hd.url_col = None \/ hd.comment_col = None
                THEN [outcome |-> "schema", has_ledger |-> TRUE, ledger |-> ds,
                      status_col |-> None, url_col |-> hd.url_col,
                      comment_col |-> hd.comment_col,
                      created |-> FALSE, missing |-> Missing(hd), workset |-> <<>>]
                ELSE Only({LoadRows(ds, hd, cs) : cs \in {SelectColumns(ds, hd)}})
              : hd \in {DetectColumns(ds)} })

(***************************************************************************)
(* XCommentBot.update_excel_file on the ledger.                            *)
(***************************************************************************)
(* a variant that writes the mark into the status cell of every row *)
update_excel_file_column(ledger, status_col_name, row_index, status) ==
    LET status_col == IF status_col_name # None THEN status_col_name ELSE T_Commented_YN
        led == IF \A i \in 1..NCols(ledger) : ledger.cols[i] # status_col
               THEN AddColumn(ledger, status_col) ELSE ledger
    IN  [led EXCEPT !.rows =
            [r \in 1..NRows(led) |->
                [i \in 1..NCols(led) |->
                    IF led.cols[i] = status_col THEN Txt(status) ELSE led.rows[r][i]]]]

update_excel_file(ledger, status_col_name, row_index, status) ==
    LET status_col == IF status_col_name # None THEN status_col_name ELSE T_Commented_YN
        led == IF \A i \in 1..NCols(ledger) : ledger.cols[i] # status_col
               THEN AddColumn(ledger, status_col) ELSE ledger
    IN  IF row_index \in 0..(NRows(led) - 1)
        THEN [led EXCEPT !.rows[row_index + 1] =
                 [i \in 1..NCols(led) |->
                     IF led.cols[i] = status_col THEN Txt(status) ELSE @[i]]]
        ELSE led

(***************************************************************************)
(* XCommentBot.get_updated_file_bytes: the table the uploaded bytes decode *)
(* to.  to_excel writes a blank and an empty text as the same empty cell,  *)
(* which reads back as a blank; headers and other cells are kept.          *)
(***************************************************************************)
(* a variant that writes the header and no row *)
get_updated_file_bytes_header(original_df) ==
    [original_df EXCEPT !.rows = <<>>]

get_updated_file_bytes(original_df) ==
    [original_df EXCEPT !.rows =
        [r \in 1..NRows(original_df) |->
            [i \in 1..NCols(original_df) |->
                IF original_df.rows[r][i] = Txt(T_empty) THEN NaN
                ELSE original_df.rows[r][i]]]]

-----------------------------------------------------------------------------
(***************************************************************************)
(* The work files the model draws from.  Each layout is a header and the   *)
(* kinds of row it may hold; a file is a layout with at most MaxRows rows. *)
(***************************************************************************)
H_Reply == <<"R","e","p","l","y">>

H_Done == <<"D","o","n","e">>

H_DoneSp == <<"D","o","n","e"," ">>

H_postUrl == <<"p","o","s","t","U","r","l">>

H_Name == <<"N","a","m","e">>

C_u == Txt(<<"u">>)

C_c == Txt(<<"c">>)

Layouts ==
    { \* target, payload and status columns
      [cols |-> <<T_url, H_Reply, H_Done>>,
       kinds |-> { <<C_u, C_c, NaN>>,                          \* pending
                   <<C_u, C_c, Txt(<<" ","y","e","s"," ">>)>>, \* done
                   <<C_u, C_c, Num(T_1)>> }],                  \* done, the number 1
      \* no status column
      [cols |-> <<H_postUrl, H_Reply>>,
       kinds |-> { <<C_u, C_c>>,
                   <<C_u, Txt(<<" ">>)>> }],                   \* blank payload
      \* no target column
      [cols |-> <<H_Name, H_Reply>>,
       kinds |-> { <<C_u, C_c>> }],
      \* no payload column
      [cols |-> <<T_url, H_Name>>,
       kinds |-> { <<C_u, C_c>> }],
      \* neither
      [cols |-> <<H_Name>>,
       kinds |-> { <<C_c>> }],
      \* a status header with a trailing space
      [cols |-> <<T_link, T_reply, H_DoneSp>>,
       kinds |-> { <<C_u, C_c, NaN>>,
                   <<C_u, C_c, Txt(T_Y)>>,
                   <<NaN, C_c, NaN>> }],                       \* blank target
      \* the status column before the payload column
      [cols |-> <<T_url, T_Commented_YN, H_Reply>>,
       kinds |-> { <<C_u, Txt(T_N), C_c>>, <<C_u, Txt(T_Y), C_c>> }] }

RowSeqs(kinds, n) == UNION {[1..k -> kinds] : k \in 0..n}

(* the files of the job-level specification: target, payload and status   *)
(* columns with pending and done rows, a file without a target column, a   *)
(* file that cannot be read                                                *)
JobDatasets ==
    {Unreadable,
     [ok |-> TRUE, cols |-> <<H_Name, H_Reply>>, rows |-> << <<C_u, C_c>> >>],
     [ok |-> TRUE, cols |-> <<H_Name, H_Reply, H_Done>>,
      rows |-> << <<C_u, C_c, Txt(T_Y)>> >>]} \cup
    {[ok |-> TRUE, cols |-> <<T_url, H_Reply, H_Done>>, rows |-> rs] :
        rs \in RowSeqs({<<C_u, C_c, NaN>>, <<C_u, C_c, Txt(T_Y)>>}, MaxRows)}

Datasets ==
    {Unreadable} \cup
    UNION { {[ok |-> TRUE, cols |-> L.cols, rows |-> rs] : rs \in RowSeqs(L.kinds, MaxRows)}
            : L \in Layouts }

-----------------------------------------------------------------------------
(***************************************************************************)
(* State.                                                                  *)
(***************************************************************************)
VARIABLES
    pc,            \* where worker_main (and the bot run it calls) stands
    poll_count,    \* worker_main's poll_count
    is_first_run,  \* worker_main's is_first_run, read once at process start
    marker,        \* whether IS_FIRST_RUN_FILE exists on disk
    job,           \* the id of the job in hand, 0 when there is none
    file_bytes,    \* the downloaded source table
    bot,           \* the XCommentBot of the job in hand
    srv,           \* the remote queue: each job's recorded status, the work file
    posted,        \* rows (by index) whose comment was submitted to the site
    h,             \* what the worker has done for the job in hand (history)
    crashes,       \* process crashes so far
    runs           \* jobs taken in hand so far

vars == <<pc, poll_count, is_first_run, marker, job, file_bytes, bot, srv, posted, h, crashes,
          runs>>

Jobs == 1..MaxJobs

NoBot ==
    [headless |-> FALSE, driver |-> "none", main_open |-> FALSE, ctx_open |-> 0,
     cur |-> "none", has_ledger |-> FALSE, original_df |-> Unreadable,
     status_col_name |-> None, df |-> <<>>, results |-> <<>>, i |-> 0,
     attempt |-> 0, result |-> [status |-> "none", message |-> "none"],
     elapsed |-> 0, exit_code |-> -1, summary |-> "none", missing |-> <<>>,
     delay |-> 20]

NoHistory ==
    [reports |-> <<>>, downloads |-> 0, sessions |-> 0, cleanups |-> 0, loads |-> 0,
     checks |-> 0, login |-> "none", calls |-> <<>>, tries |-> 0, backoffs |-> <<>>,
     paces |-> 0, marks |-> {}, dl_failed |-> FALSE, reattempt |-> FALSE,
     verify |-> "none", log |-> "none", slept |-> 0, poll |-> "none"]

Start ==
    /\ pc = "start"
    /\ poll_count = 0
    /\ is_first_run = TRUE
    /\ marker = FALSE
    /\ job = 0
    /\ file_bytes = Unreadable
    /\ bot = NoBot
    /\ posted = {}
    /\ h = NoHistory
    /\ crashes = 0
    /\ runs = 0

NewQueue(files) == {[status |-> [j \in Jobs |-> "NONE"], file |-> d] : d \in files}

(* the worker process starts; the queue holds one of a few work files *)
Init == Start /\ srv \in NewQueue(JobDatasets)

(* the same, with the queue holding any of the work files *)
InitBatch == Start /\ srv \in NewQueue(Datasets)

(***************************************************************************)
(* The remote queue (an external collaborator): a user submits the next    *)
(* job over the work file the queue holds.  The queue records a status     *)
(* when a status report reaches it, and replaces the work file when the    *)
(* report carries one.                                                     *)
(***************************************************************************)
SubmitJob ==
    /\ pc = "poll"
    /\ \E j \in Jobs :
        /\ srv.status[j] = "NONE"
        /\ \A k \in Jobs : k < j => srv.status[k] # "NONE"
        /\ srv' = [srv EXCEPT !.status[j] = "PENDING"]
    /\ UNCHANGED <<pc, poll_count, is_first_run, marker, job, file_bytes, bot, posted, h, crashes, runs>>

(* update_job_status(job_id, status, summary, updated_file_bytes): the     *)
(* queue after the request; delivered is FALSE when the request fails in   *)
(* transport (the error is printed and swallowed).                         *)
update_job_status(q, job_id, status, has_file, file, delivered) ==
    IF delivered
    THEN [q EXCEPT !.status[job_id] = status,
                   !.file = IF has_file THEN file ELSE @]
    ELSE q

Report(status, has_file, delivered) ==
    [status |-> status, file |-> has_file, delivered |-> delivered]

(***************************************************************************)
(* worker_main.                                                            *)
(***************************************************************************)
WorkerStart ==
    /\ pc = "start"
    /\ is_first_run' = ~marker
    /\ poll_count' = 0
    /\ pc' = "poll"
    /\ UNCHANGED <<marker, job, file_bytes, bot, srv, posted, h, crashes, runs>>

(* check_for_pending_jobs returns a job; the model follows at most limit   *)
(* jobs taken in hand                                                      *)
Acquire(limit) ==
    /\ pc = "poll"
    /\ poll_count < MAX_POLLS
    /\ runs < limit
    /\ runs' = runs + 1
    /\ \E j \in Jobs :
        /\ srv.status[j] = "PENDING"
        /\ job' = j
    /\ pc' = "acquired"
    /\ h' = NoHistory
    /\ bot' = NoBot
    /\ file_bytes' = Unreadable
    /\ UNCHANGED <<poll_count, is_first_run, marker, srv, posted, crashes>>

PollJob == Acquire(MaxRuns)

PollOneJob == Acquire(1)

(* a variant that goes to the download without the report of line 958 *)
ReportRunning_Skipped ==
    /\ pc = "acquired"
    /\ pc' = "download"
    /\ UNCHANGED <<poll_count, is_first_run, marker, job, file_bytes, bot, srv, posted, h, crashes, runs>>

(* worker_main line 958 *)
ReportRunning ==
    /\ pc = "acquired"
    /\ \E delivered \in BOOLEAN :
        /\ srv' = update_job_status(srv, job, "RUNNING", FALSE, srv.file, delivered)
        /\ h' = [h EXCEPT !.reports = Append(@, Report("RUNNING", FALSE, delivered))]
    /\ pc' = "download"
    /\ UNCHANGED <<poll_count, is_first_run, marker, job, file_bytes, bot, posted, crashes, runs>>

(* a variant that polls again when the download fails, the job still in    *)
(* hand                                                                    *)
DownloadFile_Repoll ==
    /\ pc = "download"
    /\ h' = [h EXCEPT !.downloads = @ + 1]
    /\ \E got \in BOOLEAN :
        IF got
        THEN /\ file_bytes' = srv.file
             /\ pc' = "bot_run"
        ELSE /\ file_bytes' = Unreadable
             /\ pc' = "poll"
    /\ UNCHANGED <<poll_count, is_first_run, marker, job, bot, srv, posted, crashes, runs>>

(* get_job_file_bytes: the bytes, or None on a transport error or when the *)
(* response holds no data                                                  *)
DownloadFile ==
    /\ pc = "download"
    /\ h' = [h EXCEPT !.downloads = @ + 1]
    /\ \E got \in BOOLEAN :
        IF got
        THEN /\ file_bytes' = srv.file
             /\ pc' = "bot_run"
        ELSE /\ file_bytes' = Unreadable
             /\ pc' = "download_failed"
    /\ UNCHANGED <<poll_count, is_first_run, marker, job, bot, srv, posted, crashes, runs>>

(* a variant that sleeps and continues without the report of line 963 *)
ReportDownloadFailed_Silent ==
    /\ pc = "download_failed"
    /\ h' = [h EXCEPT !.dl_failed = TRUE]
    /\ pc' = "download_failed_sleep"
    /\ UNCHANGED <<poll_count, is_first_run, marker, job, file_bytes, bot, srv, posted, crashes, runs>>

(* worker_main line 963 *)
ReportDownloadFailed ==
    /\ pc = "download_failed"
    /\ \E delivered \in BOOLEAN :
        /\ srv' = update_job_status(srv, job, "FAILED", FALSE, srv.file, delivered)
        /\ h' = [h EXCEPT !.reports = Append(@, Report("FAILED", FALSE, delivered)),
                          !.dl_failed = TRUE]
    /\ pc' = "download_failed_sleep"
    /\ UNCHANGED <<poll_count, is_first_run, marker, job, file_bytes, bot, posted, crashes, runs>>

(* a variant without the continue of line 965: the bot run follows *)
ContinueAfterDownloadFailure_FallThrough ==
    /\ pc = "download_failed_sleep"
    /\ pc' = "bot_run"
    /\ UNCHANGED <<poll_count, is_first_run, marker, job, file_bytes, bot, srv, posted, h, crashes, runs>>

(* worker_main lines 964-965: sleep, continue *)
ContinueAfterDownloadFailure ==
    /\ pc = "download_failed_sleep"
    /\ pc' = "poll"
    /\ job' = 0
    /\ h' = NoHistory
    /\ UNCHANGED <<poll_count, is_first_run, marker, file_bytes, bot, srv, posted, crashes, runs>>

(* a variant that sleeps without counting the poll *)
IdlePoll_NoCount(limit, answer) ==
    /\ pc = "poll"
    /\ poll_count < MAX_POLLS
    /\ poll_count < limit
    /\ h' = [h EXCEPT !.poll = answer]
    /\ UNCHANGED <<pc, poll_count, is_first_run, marker, job, file_bytes, bot, srv, posted, crashes, runs>>

(* worker_main lines 1005-1008: no job in hand, count the poll and sleep.  *)
(* The model follows at most limit idle polls in a row; answer is what the  *)
(* poll met, "empty" (no pending job) or "error" (RequestException), which *)
(* check_for_pending_jobs does not hand on: h.poll keeps it.               *)
IdlePoll(limit, answer) ==
    /\ pc = "poll"
    /\ poll_count < MAX_POLLS
    /\ poll_count < limit
    /\ poll_count' = poll_count + 1
    /\ h' = [h EXCEPT !.poll = answer]
    /\ UNCHANGED <<pc, is_first_run, marker, job, file_bytes, bot, srv, posted, crashes, runs>>

(* check_for_pending_jobs returns None: the queue has no pending job *)
PollNoJob ==
    /\ \A j \in Jobs : srv.status[j] # "PENDING"
    /\ IdlePoll(MaxIdlePolls, "empty")

(* a variant in which a poll that failed in transport is repeated after    *)
(* the interval without being counted                                      *)
PollTransportError_NotCounted ==
    /\ \E j \in Jobs : srv.status[j] = "PENDING"
    /\ IdlePoll_NoCount(MaxIdlePolls, "error")

(* check_for_pending_jobs returns None: the request failed in transport *)
PollTransportError ==
    /\ \E j \in Jobs : srv.status[j] = "PENDING"
    /\ IdlePoll(MaxIdlePolls, "error")

(* the same two, followed up to the ceiling of the loop *)
PollNoJobToCeiling ==
    /\ \A j \in Jobs : srv.status[j] # "PENDING"
    /\ IdlePoll(MAX_POLLS, "empty")

PollTransportErrorToCeiling ==
    /\ \E j \in Jobs : srv.status[j] = "PENDING"
    /\ IdlePoll(MAX_POLLS, "error")

(* worker_main line 946: the test of the while fails, worker_main returns *)
WorkerExit ==
    /\ pc = "poll"
    /\ ~(poll_count < MAX_POLLS)
    /\ pc' = "exited"
    /\ UNCHANGED <<poll_count, is_first_run, marker, job, file_bytes, bot, srv, posted, h, crashes, runs>>

(***************************************************************************)
(* XCommentBot.run, called at worker_main line 976.                        *)
(***************************************************************************)
(* run's "except Exception": log, return 1 *)
Fatal(b) == [b EXCEPT !.exit_code = 1, !.summary = "fatal"]

(* The delay field of the jobs the queue hands out, in tenths of a second: *)
(* the first job carries none, the later ones 2.0 s.                       *)
JobDelay(j) == IF j = 1 THEN 0 ELSE 20

(* worker_main line 953: delay = job.get("delay") or 5.0 *)
Delay(j) == IF JobDelay(j) # 0 THEN JobDelay(j) ELSE 50

(* XCommentBot(), the arguments of run (lines 809-812) and                 *)
(* setup_chrome_driver                                                     *)
SetupDriver ==
    /\ pc = "bot_run"
    /\ \E o \in {"ok", "no_driver", "driver_broken"} :
        LET b0 == [NoBot EXCEPT !.headless = ~is_first_run, !.delay = Delay(job)]
        IN  CASE o = "ok" ->
                   /\ bot' = [b0 EXCEPT !.driver = "up", !.main_open = TRUE, !.cur = "main"]
                   /\ h' = [h EXCEPT !.sessions = @ + 1]
                   /\ pc' = "navigate"
              [] o = "no_driver" ->       \* webdriver.Chrome(...) raises
                   /\ bot' = Fatal(b0)
                   /\ h' = h
                   /\ pc' = "cleanup"
              [] o = "driver_broken" ->   \* the driver exists, execute_script raises
                   /\ bot' = Fatal([b0 EXCEPT !.driver = "up", !.main_open = TRUE,
                                              !.cur = "main"])
                   /\ h' = [h EXCEPT !.sessions = @ + 1]
                   /\ pc' = "cleanup"
    /\ UNCHANGED <<poll_count, is_first_run, marker, job, file_bytes, srv, posted, crashes, runs>>

NavigateToLogin ==
    /\ pc = "navigate"
    /\ \/ /\ pc' = "login"
          /\ bot' = bot
       \/ /\ pc' = "cleanup"       \* driver.get raises
          /\ bot' = Fatal(bot)
    /\ UNCHANGED <<poll_count, is_first_run, marker, job, file_bytes, srv, posted, h, crashes, runs>>

(* history counters tell none, one, more than one *)
Once(n) == IF n < 2 THEN n + 1 ELSE 2

(* run lines 819-821 when wait_for_manual_login returns False *)
LoginFailed(b) == [b EXCEPT !.exit_code = 2, !.summary = "login_failed"]

(* a variant that checks again when the headless check does not confirm *)
LoginHeadless_Waits ==
    /\ pc = "login"
    /\ bot.headless
    /\ \E o \in {"raises", "confirmed", "not_confirmed"} :
        CASE o = "raises" ->
               /\ bot' = Fatal(bot)
               /\ h' = h
               /\ pc' = "cleanup"
          [] o = "confirmed" ->
               /\ bot' = bot
               /\ h' = [h EXCEPT !.checks = Once(@), !.login = "confirmed"]
               /\ pc' = "load"
          [] o = "not_confirmed" ->
               /\ bot' = bot
               /\ h' = [h EXCEPT !.checks = Once(@)]
               /\ pc' = "login"
    /\ UNCHANGED <<poll_count, is_first_run, marker, job, file_bytes, srv, posted, crashes, runs>>

(* wait_for_manual_login_ui, headless: one driver.get, one confirm_login *)
LoginHeadless ==
    /\ pc = "login"
    /\ bot.headless
    /\ \E o \in {"raises", "confirmed", "not_confirmed"} :
        CASE o = "raises" ->        \* driver.get("https://x.com/home") raises
               /\ bot' = Fatal(bot)
               /\ h' = h
               /\ pc' = "cleanup"
          [] o = "confirmed" ->
               /\ bot' = bot
               /\ h' = [h EXCEPT !.checks = Once(@), !.login = "confirmed"]
               /\ pc' = "load"
          [] o = "not_confirmed" ->
               /\ bot' = LoginFailed(bot)
               /\ h' = [h EXCEPT !.checks = Once(@), !.login = "unauthenticated"]
               /\ pc' = "cleanup"
    /\ UNCHANGED <<poll_count, is_first_run, marker, job, file_bytes, srv, posted, crashes, runs>>

(* seconds one turn of the login loop may take when nothing confirms (slow *)
(* pages)                                                                  *)
ConfirmSeconds == {300, 450}

(* a variant whose loop has no timeout test *)
LoginInteractive_NoCeiling ==
    /\ pc = "login"
    /\ ~bot.headless
    /\ \/ /\ bot' = [bot EXCEPT !.elapsed = 0]
          /\ h' = [h EXCEPT !.login = "confirmed"]
          /\ pc' = "load"
       \/ /\ bot' = [bot EXCEPT !.elapsed = 0]
          /\ h' = [h EXCEPT !.checks = Once(@), !.login = "confirmed"]
          /\ pc' = "load"
       \/ \E d \in ConfirmSeconds :
            /\ bot' = [bot EXCEPT !.elapsed = bot.elapsed + d + 1]
            /\ h' = [h EXCEPT !.checks = Once(@)]
            /\ pc' = "login"
    /\ UNCHANGED <<poll_count, is_first_run, marker, job, file_bytes, srv, posted, crashes, runs>>

(* wait_for_manual_login_ui, interactive: one turn of the while loop *)
LoginInteractive ==
    /\ pc = "login"
    /\ ~bot.headless
    /\ \/ \* the overlay button was clicked: flag == "1"
          /\ bot' = [bot EXCEPT !.elapsed = 0]
          /\ h' = [h EXCEPT !.login = "confirmed"]
          /\ pc' = "load"
       \/ \* confirm_login finds a page indicator
          /\ bot' = [bot EXCEPT !.elapsed = 0]
          /\ h' = [h EXCEPT !.checks = Once(@), !.login = "confirmed"]
          /\ pc' = "load"
       \/ \* neither: the timeout test, then sleep 1 s
          \E d \in ConfirmSeconds :
            LET now == bot.elapsed + d
            IN  IF now > timeout_seconds
                THEN /\ bot' = LoginFailed([bot EXCEPT !.elapsed = 0])
                     /\ h' = [h EXCEPT !.checks = Once(@), !.login = "timed_out"]
                     /\ pc' = "cleanup"
                ELSE /\ bot' = [bot EXCEPT !.elapsed = now + 1]
                     /\ h' = [h EXCEPT !.checks = Once(@)]
                     /\ pc' = "login"
    /\ UNCHANGED <<poll_count, is_first_run, marker, job, file_bytes, srv, posted, crashes, runs>>

(* a variant without the empty test of lines 825-827: process_posts returns *)
(* at once and the run goes on to its final report                          *)
LoadSpreadsheet_NoEmptyTest ==
    /\ pc = "load"
    /\ h' = [h EXCEPT !.loads = @ + 1]
    /\ \E r \in {load_spreadsheet(file_bytes)} :
       \E b \in {[bot EXCEPT !.has_ledger = r.has_ledger,
                             !.original_df = r.ledger,
                             !.status_col_name = r.status_col,
                             !.df = r.workset,
                             !.missing = r.missing]} :
           IF r.outcome # "ok"
           THEN /\ bot' = Fatal(b)
                /\ pc' = "cleanup"
           ELSE IF Len(r.workset) = 0
           THEN /\ bot' = b
                /\ pc' = "summary"
           ELSE /\ bot' = [b EXCEPT !.i = 1]
                /\ pc' = "item"
    /\ UNCHANGED <<poll_count, is_first_run, marker, job, file_bytes, srv, posted, crashes, runs>>

(* run lines 824-827 *)
LoadSpreadsheet ==
    /\ pc = "load"
    /\ h' = [h EXCEPT !.loads = @ + 1]
    /\ \E r \in {load_spreadsheet(file_bytes)} :
       \E b \in {[bot EXCEPT !.has_ledger = r.has_ledger,
                             !.original_df = r.ledger,
                             !.status_col_name = r.status_col,
                             !.df = r.workset,
                             !.missing = r.missing]} :
           IF r.outcome # "ok"
           THEN /\ bot' = Fatal(b)
                /\ pc' = "cleanup"
           ELSE IF Len(r.workset) = 0
           THEN /\ bot' = [b EXCEPT !.exit_code = 4, !.summary = "no_posts"]
                /\ pc' = "cleanup"
           ELSE /\ bot' = [b EXCEPT !.i = 1]
                /\ pc' = "item"
    /\ UNCHANGED <<poll_count, is_first_run, marker, job, file_bytes, srv, posted, crashes, runs>>

(***************************************************************************)
(* process_posts and process_single_post.                                  *)
(***************************************************************************)
CurrentItem == bot.df[bot.i]

(* a variant that lets the transport error of a log request out *)
api_stream_log_Raises(delivered) ==
    IF delivered THEN "returned" ELSE "raised"

(* api_stream_log: the request is sent; a RequestException is printed and  *)
(* the function returns (lines 871-880)                                    *)
api_stream_log(delivered) ==
    IF delivered THEN "returned" ELSE "returned"

(* log_and_callback: an exception of the callback is logged, not raised    *)
(* (lines 85-90)                                                           *)
log_and_callback(delivered) ==
    IF api_stream_log(delivered) = "raised" THEN "returned" ELSE "returned"

(* what h.log keeps of a log request *)
Fate(delivered) == IF delivered THEN "sent" ELSE "lost"

(* process_single_post is entered for the row of the loop (line 538) *)
BeginItem ==
    /\ pc = "item"
    /\ bot' = [bot EXCEPT !.attempt = 0,
                          !.result = [status |-> "failed", message |-> "empty"]]
    /\ h' = [h EXCEPT !.calls = Append(@, CurrentItem.idx),
                      !.tries = 0,
                      !.backoffs = <<>>,
                      !.slept = 0,
                      !.reattempt = @ \/ (CurrentItem.idx \in posted)]
    /\ pc' = "attempt"
    /\ UNCHANGED <<poll_count, is_first_run, marker, job, file_bytes, srv, posted, crashes, runs>>

(* What the page of a post offers to one call of post_comment: whether the *)
(* reply button, the compose area and an enabled post button are found,    *)
(* whether one of the three ways of typing the text works, whether the     *)
(* click on the post button goes through, and what the look for a posted   *)
(* reply gives afterwards.  GoodPage(v) lets the reply through.            *)
GoodPage(v) ==
    [reply_button |-> TRUE, compose_area |-> TRUE, input |-> TRUE,
     post_button |-> TRUE, click |-> "ok", verify |-> v]

(* the pages the model draws from: a good page with each result of the     *)
(* look afterwards, and one page for each step that fails                  *)
Pages ==
    {GoodPage(v) : v \in {"marker", "no_marker", "raises"}} \cup
    {[GoodPage("marker") EXCEPT !.reply_button = FALSE],
     [GoodPage("marker") EXCEPT !.compose_area = FALSE],
     [GoodPage("marker") EXCEPT !.input = FALSE],
     [GoodPage("marker") EXCEPT !.post_button = FALSE],
     [GoodPage("no_marker") EXCEPT !.click = "raises"]}

(* a variant that takes a reply for posted only when a marker is found *)
post_comment_NeedsMarker(page) ==
    IF ~page.reply_button THEN [ret |-> FALSE, submitted |-> FALSE]
    ELSE IF ~page.compose_area THEN [ret |-> FALSE, submitted |-> FALSE]
    ELSE IF ~page.input THEN [ret |-> FALSE, submitted |-> FALSE]
    ELSE IF ~page.post_button THEN [ret |-> FALSE, submitted |-> FALSE]
    ELSE IF page.click = "raises" THEN [ret |-> FALSE, submitted |-> FALSE]
    ELSE [ret |-> page.verify = "marker", submitted |-> TRUE]

(* XCommentBot.post_comment: what it returns, and whether the post button  *)
(* was clicked                                                             *)
post_comment(page) ==
    IF ~page.reply_button THEN [ret |-> FALSE, submitted |-> FALSE]       \* 623-625
    ELSE IF ~page.compose_area THEN [ret |-> FALSE, submitted |-> FALSE]  \* 651-653
    ELSE IF ~page.input THEN [ret |-> FALSE, submitted |-> FALSE]         \* 690-692
    ELSE IF ~page.post_button THEN [ret |-> FALSE, submitted |-> FALSE]   \* 725-727
    ELSE IF page.click = "raises" THEN [ret |-> FALSE, submitted |-> FALSE] \* 757-759
    ELSE CASE page.verify = "marker" -> [ret |-> TRUE, submitted |-> TRUE]    \* 747-748
           [] page.verify = "no_marker" -> [ret |-> TRUE, submitted |-> TRUE] \* 749-750
           [] page.verify = "raises" -> [ret |-> TRUE, submitted |-> TRUE]    \* 751-752

(* One pass of the try block of lines 568-585.  The per-item window is      *)
(* opened (from the current window, which it needs) and made current, the   *)
(* page is loaded and post_comment is called; window.open and driver.get    *)
(* may raise.                                                               *)
Attempt ==
    /\ pc = "attempt"
    /\ \/ \* window.open raises: no new window
          /\ bot' = [bot EXCEPT !.result.message = "error"]
          /\ posted' = posted
          /\ h' = [h EXCEPT !.tries = @ + 1]
          /\ pc' = "backoff"
       \/ \* driver.get raises
          /\ bot.cur # "none"
          /\ bot' = [bot EXCEPT !.result.message = "error",
                                !.ctx_open = @ + 1, !.cur = "ctx"]
          /\ posted' = posted
          /\ h' = [h EXCEPT !.tries = @ + 1]
          /\ pc' = "backoff"
       \/ /\ bot.cur # "none"
          /\ \E page \in Pages :
             \E r \in {post_comment(page)} :
                /\ posted' = IF r.submitted THEN posted \cup {CurrentItem.idx}
                             ELSE posted
                /\ h' = [h EXCEPT !.tries = @ + 1,
                                  !.verify = IF r.submitted THEN page.verify ELSE "none"]
                /\ IF r.ret
                   THEN \* lines 575-578: break
                        /\ bot' = [bot EXCEPT !.result = [status |-> "success",
                                                          message |-> "posted"],
                                              !.ctx_open = @ + 1, !.cur = "ctx"]
                        /\ pc' = "teardown"
                   ELSE \* line 580
                        /\ bot' = [bot EXCEPT !.result.message = "failed_to_post",
                                              !.ctx_open = @ + 1, !.cur = "ctx"]
                        /\ pc' = "backoff"
    /\ UNCHANGED <<poll_count, is_first_run, marker, job, file_bytes, srv, crashes, runs>>

RECURSIVE Pow2(_)
Pow2(n) == IF n = 0 THEN 1 ELSE 2 * Pow2(n - 1)

(* a variant that waits after every failed attempt, the last included *)
Backoff_EveryAttempt ==
    /\ pc = "backoff"
    /\ \E delivered \in BOOLEAN :
          h' = [h EXCEPT !.backoffs = Append(@, Pow2(bot.attempt)),
                         !.log = Fate(delivered)]
    /\ pc' = "teardown"
    /\ UNCHANGED <<poll_count, is_first_run, marker, job, file_bytes, bot, srv, posted, crashes, runs>>

(* lines 587-590: the log line and the wait before the next attempt *)
Backoff ==
    /\ pc = "backoff"
    /\ IF bot.attempt < max_retries - 1
       THEN \E delivered \in BOOLEAN :
               /\ log_and_callback(delivered) = "returned"
               /\ h' = [h EXCEPT !.backoffs = Append(@, Pow2(bot.attempt)),
                                 !.log = Fate(delivered)]
       ELSE h' = h
    /\ pc' = "teardown"
    /\ UNCHANGED <<poll_count, is_first_run, marker, job, file_bytes, bot, srv, posted, crashes, runs>>

(* a variant without the inner try of lines 593-597: an error of close()  *)
(* leaves process_single_post                                              *)
Teardown_Unguarded ==
    /\ pc = "teardown"
    /\ LET last == bot.result.status = "success" \/ bot.attempt = max_retries - 1
           next(b) == IF last THEN b ELSE [b EXCEPT !.attempt = @ + 1]
       IN  \/ /\ bot.cur = "ctx"
              /\ bot' = next([bot EXCEPT !.ctx_open = @ - 1, !.cur = "main"])
              /\ pc' = IF last THEN "item_done" ELSE "attempt"
           \/ /\ bot' = Fatal(bot)
              /\ pc' = "cleanup"
    /\ h' = [h EXCEPT !.verify = "none", !.log = "none"]
    /\ UNCHANGED <<poll_count, is_first_run, marker, job, file_bytes, srv, posted, crashes, runs>>

(* a variant without the break of line 578: the loop runs its three turns  *)
(* whatever post_comment returned                                          *)
Teardown_NoBreak ==
    /\ pc = "teardown"
    /\ LET last == bot.attempt = max_retries - 1
           next(b) == IF last THEN b ELSE [b EXCEPT !.attempt = @ + 1]
       IN  /\ \/ /\ bot.cur = "ctx"
                 /\ bot.main_open
                 /\ bot' = next([bot EXCEPT !.ctx_open = @ - 1, !.cur = "main"])
              \/ /\ bot.cur = "main"
                 /\ bot' = next([bot EXCEPT !.main_open = FALSE, !.cur = "none"])
              \/ /\ \/ bot.cur = "none"
                    \/ bot.cur = "main"
                    \/ bot.cur = "ctx" /\ bot.ctx_open <= MaxLeaks
                 /\ bot' = next(bot)
           /\ pc' = IF last THEN "item_done" ELSE "attempt"
    /\ h' = [h EXCEPT !.verify = "none", !.log = "none"]
    /\ UNCHANGED <<poll_count, is_first_run, marker, job, file_bytes, srv, posted, crashes, runs>>

(* lines 592-597: driver.close() closes the current window, whichever it   *)
(* is, then the main window is made current; an error of either is         *)
(* swallowed, and when close() raises the switch is not made.  Then the     *)
(* loop goes on, or ends after a break or the last attempt.  close() may    *)
(* fail with the window still there (at most MaxLeaks windows are followed  *)
(* that way); without a current window it always fails.                     *)
Teardown ==
    /\ pc = "teardown"
    /\ LET last == bot.result.status = "success" \/ bot.attempt = max_retries - 1
           next(b) == IF last THEN b ELSE [b EXCEPT !.attempt = @ + 1]
       IN  /\ \/ \* close() and the switch go through
                 /\ bot.cur = "ctx"
                 /\ bot.main_open
                 /\ bot' = next([bot EXCEPT !.ctx_open = @ - 1, !.cur = "main"])
              \/ \* no window was opened: main is closed, the switch raises
                 /\ bot.cur = "main"
                 /\ bot' = next([bot EXCEPT !.main_open = FALSE, !.cur = "none"])
              \/ \* close() raises
                 /\ \/ bot.cur = "none"
                    \/ bot.cur = "main"
                    \/ bot.cur = "ctx" /\ bot.ctx_open <= MaxLeaks
                 /\ bot' = next(bot)
           /\ pc' = IF last THEN "item_done" ELSE "attempt"
    /\ h' = [h EXCEPT !.verify = "none", !.log = "none"]
    /\ UNCHANGED <<poll_count, is_first_run, marker, job, file_bytes, srv, posted, crashes, runs>>

(* a variant that ends the loop at the first row whose result is failed *)
RecordItem_StopOnFailure ==
    /\ pc = "item_done"
    /\ \E delivered \in BOOLEAN :
       \E status \in {IF bot.result.status = "success" THEN T_Y ELSE T_N} :
          /\ bot' = [bot EXCEPT
                       !.results = Append(@, [post_number |-> bot.i,
                                              original_index |-> CurrentItem.idx,
                                              status |-> bot.result.status,
                                              message |-> bot.result.message]),
                       !.original_df = update_excel_file(bot.original_df,
                                           bot.status_col_name, CurrentItem.idx, status)]
          /\ h' = [h EXCEPT !.marks = @ \cup {CurrentItem.idx}, !.tries = 0,
                            !.backoffs = <<>>, !.log = Fate(delivered)]
          /\ pc' = IF bot.i < Len(bot.df) /\ bot.result.status = "success"
                   THEN "pace" ELSE "summary"
    /\ UNCHANGED <<poll_count, is_first_run, marker, job, file_bytes, srv, posted, crashes, runs>>

(* process_posts lines 539-546: keep the result, mark the ledger row,      *)
(* notify progress.  The progress line goes to ui_callback directly, not   *)
(* through log_and_callback: what the callback raises leaves process_posts *)
(* and ends the run in its "except Exception".                             *)
RecordItem ==
    /\ pc = "item_done"
    /\ \E delivered \in BOOLEAN :
       \E status \in {IF bot.result.status = "success" THEN T_Y ELSE T_N} :
       \E b \in {[bot EXCEPT
                    !.results = Append(@, [post_number |-> bot.i,
                                           original_index |-> CurrentItem.idx,
                                           status |-> bot.result.status,
                                           message |-> bot.result.message]),
                    !.original_df = update_excel_file(bot.original_df,
                                        bot.status_col_name, CurrentItem.idx, status)]} :
          /\ h' = [h EXCEPT !.marks = @ \cup {CurrentItem.idx}, !.tries = 0,
                            !.backoffs = <<>>, !.log = Fate(delivered)]
          /\ IF api_stream_log(delivered) = "raised"
             THEN /\ bot' = Fatal(b)
                  /\ pc' = "cleanup"
             ELSE /\ bot' = b
                  /\ pc' = IF bot.i < Len(bot.df) THEN "pace" ELSE "summary"
    /\ UNCHANGED <<poll_count, is_first_run, marker, job, file_bytes, srv, posted, crashes, runs>>

(* random.uniform(0.5, 1.5), in tenths of a second *)
Jitters == {5, 10, 15}

(* a variant that sleeps the configured delay and nothing more *)
Pace_NoJitter ==
    /\ pc = "pace"
    /\ bot' = [bot EXCEPT !.i = @ + 1]
    /\ h' = [h EXCEPT !.paces = @ + 1, !.slept = bot.delay, !.log = "none"]
    /\ pc' = "item"
    /\ UNCHANGED <<poll_count, is_first_run, marker, job, file_bytes, srv, posted, crashes, runs>>

(* process_posts lines 548-551: the sleep between two rows *)
Pace ==
    /\ pc = "pace"
    /\ bot.i < Len(bot.df)
    /\ bot' = [bot EXCEPT !.i = @ + 1]
    /\ \E jitter \in Jitters :
          h' = [h EXCEPT !.paces = @ + 1, !.slept = bot.delay + jitter, !.log = "none"]
    /\ pc' = "item"
    /\ UNCHANGED <<poll_count, is_first_run, marker, job, file_bytes, srv, posted, crashes, runs>>

Successful(results) == {k \in 1..Len(results) : results[k].status = "success"}

(* a variant that returns from run without the finally of line 844 *)
Summarize_NoFinally ==
    /\ pc = "summary"
    /\ bot' = [bot EXCEPT !.exit_code = IF Cardinality(Successful(bot.results)) > 0
                                        THEN 0 ELSE 3,
                          !.summary = "summary"]
    /\ h' = [h EXCEPT !.log = "none"]
    /\ pc' = "collect"
    /\ UNCHANGED <<poll_count, is_first_run, marker, job, file_bytes, srv, posted, crashes, runs>>

(* run lines 833-838 *)
Summarize ==
    /\ pc = "summary"
    /\ bot' = [bot EXCEPT !.exit_code = IF Cardinality(Successful(bot.results)) > 0
                                        THEN 0 ELSE 3,
                          !.summary = "summary"]
    /\ h' = [h EXCEPT !.log = "none"]
    /\ pc' = "cleanup"
    /\ UNCHANGED <<poll_count, is_first_run, marker, job, file_bytes, srv, posted, crashes, runs>>

(* a variant in which the marker is written when the run ends, before the *)
(* final report                                                            *)
Cleanup_Marks ==
    /\ pc = "cleanup"
    /\ bot' = [bot EXCEPT !.driver = IF @ = "up" THEN "quit" ELSE @,
                          !.main_open = FALSE, !.ctx_open = 0, !.cur = "none"]
    /\ h' = [h EXCEPT !.cleanups = @ + 1]
    /\ marker' = TRUE
    /\ pc' = "collect"
    /\ UNCHANGED <<poll_count, is_first_run, job, file_bytes, srv, posted, crashes, runs>>

(* run's finally: cleanup() *)
Cleanup ==
    /\ pc = "cleanup"
    /\ bot' = [bot EXCEPT !.driver = IF @ = "up" THEN "quit" ELSE @,
                          !.main_open = FALSE, !.ctx_open = 0, !.cur = "none"]
    /\ h' = [h EXCEPT !.cleanups = @ + 1]
    /\ pc' = "collect"
    /\ UNCHANGED <<poll_count, is_first_run, marker, job, file_bytes, srv, posted, crashes, runs>>

(* a variant that takes only exit code 0 for a completed job *)
FinalStatus_ZeroOnly(exit_code) ==
    IF exit_code = 0 THEN "COMPLETED"
    ELSE "FAILED"

(* worker_main lines 988-993 *)
FinalStatus(exit_code) ==
    IF exit_code = 0 THEN "COMPLETED"
    ELSE IF exit_code = 4 THEN "COMPLETED"
    ELSE "FAILED"

(* worker_main lines 985-995: the updated file and the final report *)
ReportFinal ==
    /\ pc = "collect"
    /\ \E delivered \in BOOLEAN :
        LET has_file == bot.has_ledger
            bytes == IF has_file THEN get_updated_file_bytes(bot.original_df)
                     ELSE Unreadable
            final_status == FinalStatus(bot.exit_code)
        IN  /\ srv' = update_job_status(srv, job, final_status, has_file, bytes, delivered)
            /\ h' = [h EXCEPT !.reports = Append(@, Report(final_status, has_file, delivered))]
    /\ pc' = "mark"
    /\ UNCHANGED <<poll_count, is_first_run, marker, job, file_bytes, bot, posted, crashes, runs>>

(* worker_main lines 998-1000 *)
MarkFirstRun ==
    /\ pc = "mark"
    /\ marker' = IF is_first_run /\ FinalStatus(bot.exit_code) \in {"COMPLETED", "FAILED"}
                 THEN TRUE ELSE marker
    /\ pc' = "finished"
    /\ UNCHANGED <<poll_count, is_first_run, job, file_bytes, bot, srv, posted, h, crashes, runs>>

(* worker_main line 1003 and the return to the head of the loop *)
FinishJob ==
    /\ pc = "finished"
    /\ poll_count' = 0
    /\ pc' = "poll"
    /\ job' = 0
    /\ h' = NoHistory
    /\ bot' = NoBot
    /\ file_bytes' = Unreadable
    /\ UNCHANGED <<is_first_run, marker, srv, posted, crashes, runs>>

(***************************************************************************)
(* The process may be killed at any point, and be started again.           *)
(***************************************************************************)
Crash ==
    /\ pc \notin {"start", "crashed", "exited"}
    /\ crashes < MaxCrashes
    /\ crashes' = crashes + 1
    /\ pc' = "crashed"
    /\ UNCHANGED <<poll_count, is_first_run, marker, job, file_bytes, bot, srv, posted, h, runs>>

Restart ==
    /\ pc = "crashed"
    /\ pc' = "start"
    /\ job' = 0
    /\ h' = NoHistory
    /\ bot' = NoBot
    /\ file_bytes' = Unreadable
    /\ UNCHANGED <<poll_count, is_first_run, marker, srv, posted, crashes, runs>>

Next ==
    \/ SubmitJob
    \/ WorkerStart
    \/ PollJob
    \/ PollNoJob
    \/ PollTransportError
    \/ ReportRunning
    \/ DownloadFile
    \/ ReportDownloadFailed
    \/ ContinueAfterDownloadFailure
    \/ SetupDriver
    \/ NavigateToLogin
    \/ LoginHeadless
    \/ LoginInteractive
    \/ LoadSpreadsheet
    \/ BeginItem
    \/ Attempt
    \/ Backoff
    \/ Teardown
    \/ RecordItem
    \/ Pace
    \/ Summarize
    \/ Cleanup
    \/ ReportFinal
    \/ MarkFirstRun
    \/ FinishJob
    \/ Crash
    \/ Restart

Spec == Init /\ [][Next]_vars

(* One job over any of the work files, without a crash of the process. *)
NextBatch ==
    \/ SubmitJob
    \/ WorkerStart
    \/ PollOneJob
    \/ PollNoJob
    \/ PollTransportError
    \/ ReportRunning
    \/ DownloadFile
    \/ ReportDownloadFailed
    \/ ContinueAfterDownloadFailure
    \/ SetupDriver
    \/ NavigateToLogin
    \/ LoginInteractive
    \/ LoadSpreadsheet
    \/ BeginItem
    \/ Attempt
    \/ Backoff
    \/ Teardown
    \/ RecordItem
    \/ Pace
    \/ Summarize
    \/ Cleanup
    \/ ReportFinal
    \/ MarkFirstRun
    \/ FinishJob

BatchSpec == InitBatch /\ [][NextBatch]_vars

(***************************************************************************)
(* One job, the process started on a first run or on a later one, without  *)
(* a crash.  worker_main is sequential code: whenever one of its steps can *)
(* be taken, one is taken.  The queue is under no obligation to submit.    *)
(***************************************************************************)
InitLive ==
    /\ pc = "start"
    /\ poll_count = 0
    /\ is_first_run = TRUE
    /\ marker \in BOOLEAN
    /\ job = 0
    /\ file_bytes = Unreadable
    /\ bot = NoBot
    /\ posted = {}
    /\ h = NoHistory
    /\ crashes = 0
    /\ runs = 0
    /\ srv \in NewQueue(JobDatasets)

WorkerStep ==
    \/ WorkerStart
    \/ PollOneJob
    \/ PollNoJob
    \/ PollTransportError
    \/ ReportRunning
    \/ DownloadFile
    \/ ReportDownloadFailed
    \/ ContinueAfterDownloadFailure
    \/ SetupDriver
    \/ NavigateToLogin
    \/ LoginHeadless
    \/ LoginInteractive
    \/ LoadSpreadsheet
    \/ BeginItem
    \/ Attempt
    \/ Backoff
    \/ Teardown
    \/ RecordItem
    \/ Pace
    \/ Summarize
    \/ Cleanup
    \/ ReportFinal
    \/ MarkFirstRun
    \/ FinishJob

NextLive == SubmitJob \/ WorkerStep

LiveSpec == InitLive /\ [][NextLive]_vars /\ WF_vars(WorkerStep)

(***************************************************************************)
(* The polling loop up to its ceiling.  The queue holds a file whose only  *)
(* row is done, so that a job is short; the worker takes at most one job,  *)
(* and polls that find nothing or fail are followed up to MAX_POLLS.       *)
(***************************************************************************)
ExitDatasets ==
    {[ok |-> TRUE, cols |-> <<T_url, H_Reply, H_Done>>,
      rows |-> << <<C_u, C_c, Txt(T_Y)>> >>]}

InitExit == Start /\ srv \in NewQueue(ExitDatasets)

WorkerStepExit ==
    \/ WorkerStart
    \/ PollOneJob
    \/ PollNoJobToCeiling
    \/ PollTransportErrorToCeiling
    \/ WorkerExit
    \/ ReportRunning
    \/ DownloadFile
    \/ ReportDownloadFailed
    \/ ContinueAfterDownloadFailure
    \/ SetupDriver
    \/ NavigateToLogin
    \/ LoginInteractive
    \/ LoadSpreadsheet
    \/ Cleanup
    \/ ReportFinal
    \/ MarkFirstRun
    \/ FinishJob

NextExit == SubmitJob \/ WorkerStepExit

ExitSpec == InitExit /\ [][NextExit]_vars /\ WF_vars(WorkerStepExit)

-----------------------------------------------------------------------------
(***************************************************************************)
(* Vocabulary of the properties.                                           *)
(***************************************************************************)
Terminal(r) == r.status \in {"COMPLETED", "FAILED"}

Terminals(reports) == {k \in 1..Len(reports) : Terminal(reports[k])}

LastReport == h.reports[Len(h.reports)]

Reported == pc \in {"mark", "finished"}

Indexes(items) == {items[k].idx : k \in 1..Len(items)}

Called == {h.calls[k] : k \in 1..Len(h.calls)}

Recorded == {bot.results[k].original_index : k \in 1..Len(bot.results)}

AnySuccess == \E k \in 1..Len(bot.results) : bot.results[k].status = "success"

(* what the source file says, read without the loader: the cells of row r  *)
(* in the columns the loader takes for the status column, and whether a    *)
(* cell holds one of the completion markers (as text or as a number)       *)
HoldsMarker(cell) == cell.t # "nan" /\ Strip(Upper(cell.v)) \in CompletionMarkers

SourceStatusCols(ds) ==
    IF load_spreadsheet(ds).outcome = "ok"
    THEN ColsNamed(ds, load_spreadsheet(ds).status_col) ELSE {}

MarkedDone(ds) ==
    {r - 1 : r \in {q \in 1..NRows(ds) :
                      \E i \in SourceStatusCols(ds) : HoldsMarker(ds.rows[q][i])}}

(***************************************************************************)
(* C1.  A row whose status cell already holds a completion marker (Y, YES, *)
(* TRUE or 1, any case, trimmed) is not in the WorkSet load returns, is    *)
(* never handed to process_single_post and has no outcome record.          *)
(***************************************************************************)
C1_DoneRowsNeverProcessed ==
    (h.loads > 0) =>
        \A idx \in MarkedDone(file_bytes) :
            /\ idx \notin Indexes(bot.df)
            /\ idx \notin Called
            /\ idx \notin Recorded

(***************************************************************************)
(* C2.  For a job whose file was downloaded, the final status reported is  *)
(* COMPLETED exactly when some outcome is a success or the loaded WorkSet  *)
(* was empty, and FAILED in every other case.                              *)
(***************************************************************************)
WorkSetEmpty ==
    /\ h.loads > 0
    /\ \E r \in {load_spreadsheet(file_bytes)} : r.outcome = "ok" /\ r.workset = <<>>

Serialized == get_updated_file_bytes(bot.original_df)

LedgerStatusCols ==
    {i \in 1..NCols(bot.original_df) : bot.original_df.cols[i] = bot.status_col_name}

C3_LedgerAtSerialization ==
    (pc = "collect" /\ bot.has_ledger) =>
        /\ NRows(Serialized) = NRows(file_bytes)
        /\ Called = Recorded
        /\ \A k \in 1..Len(bot.results) :
              /\ LedgerStatusCols # {}
              /\ \A i \in LedgerStatusCols :
                    Serialized.rows[bot.results[k].original_index + 1][i] =
                        Txt(IF bot.results[k].status = "success" THEN T_Y ELSE T_N)
        /\ \A r \in 1..NRows(file_bytes) :
              (r - 1) \notin Indexes(bot.df) =>
                  \A i \in 1..NCols(Serialized) :
                      Serialized.rows[r][i] =
                          IF i <= NCols(file_bytes) THEN file_bytes.rows[r][i] ELSE NaN

C3_Witness ==
    /\ pc = "collect"
    /\ bot.has_ledger
    /\ AnySuccess
    /\ \E r \in 1..NRows(file_bytes) :
          /\ (r - 1) \notin Indexes(bot.df)
          /\ (r - 1) \in MarkedDone(file_bytes)

(***************************************************************************)
(* C4.  A row all of whose attempts fail is attempted exactly max_retries  *)
(* (3) times, with a wait of 1 s after the first attempt and 2 s after the *)
(* second and no wait after the third, and its result says failed.         *)
(***************************************************************************)
C4_ThreeAttemptsTwoWaits ==
    /\ h.tries <= max_retries
    /\ (pc = "item_done" /\ bot.result.status = "failed") =>
          /\ h.tries = max_retries
          /\ h.backoffs = <<1, 2>>

C4_Witness ==
    /\ pc = "item_done"
    /\ bot.result.status = "failed"
    /\ h.tries = 3
    /\ h.backoffs = <<1, 2>>

(***************************************************************************)
(* C5.  For a job in hand, the RUNNING report is sent before the download, *)
(* before the browser session is set up, before the ledger is loaded,      *)
(* before any row is attempted and before the terminal report.             *)
(***************************************************************************)
C5_RunningFirst ==
    (\/ h.downloads > 0
     \/ h.sessions > 0
     \/ h.loads > 0
     \/ h.calls # <<>>
     \/ Terminals(h.reports) # {}) =>
        /\ h.reports # <<>>
        /\ h.reports[1].status = "RUNNING"

C5_Witness ==
    /\ h.downloads = 1
    /\ h.sessions = 1
    /\ h.loads = 1
    /\ h.calls # <<>>
    /\ Terminals(h.reports) = {2}

(***************************************************************************)
(* C6.  Once the worker has sent the RUNNING report of the job in hand and *)
(* gone on with local work, the status the queue records for that job is   *)
(* never PENDING again, whether or not a report fails in transport or the  *)
(* process is killed.                                                      *)
(***************************************************************************)
C6_NeverPendingOnceClaimed ==
    (job # 0 /\ h.reports # <<>>) => srv.status[job] # "PENDING"

C8_NoReattempt == (crashes = 0) => ~h.reattempt

(***************************************************************************)
(* C9.  When the download fails the worker reports FAILED at once and      *)
(* without a file, having tried the download once, and for that job sets   *)
(* up no session, loads no ledger and attempts no row.                     *)
(***************************************************************************)
C9_DownloadFailure ==
    /\ (pc = "download_failed") =>
          (h.downloads = 1 /\ Len(h.reports) = 1)
    /\ h.dl_failed =>
          /\ h.downloads = 1
          /\ h.sessions = 0
          /\ h.loads = 0
          /\ h.calls = <<>>
          /\ ~bot.has_ledger
          /\ Len(h.reports) = 2
          /\ h.reports[2].status = "FAILED"
          /\ \A k \in 1..Len(h.reports) : ~h.reports[k].file

C9_Witness ==
    /\ pc = "download_failed_sleep"
    /\ h.dl_failed
    /\ h.reports[2].status = "FAILED"

(***************************************************************************)
(* C10.  A headless run makes one passive login check and never loops;     *)
(* when the check does not confirm, the run ends with the login failure    *)
(* (exit code 2), the job is reported FAILED, the ledger is never loaded   *)
(* and no row is attempted.                                                *)
(***************************************************************************)
C10_HeadlessSingleCheck ==
    /\ bot.headless => h.checks <= 1
    /\ (bot.headless /\ h.login = "unauthenticated") =>
          /\ h.checks = 1
          /\ h.loads = 0
          /\ h.calls = <<>>
          /\ bot.exit_code = 2
          /\ bot.summary = "login_failed"
          /\ pc \in {"cleanup", "collect", "mark", "finished", "crashed"}
          /\ Reported => LastReport.status = "FAILED"

C10_Witness ==
    /\ bot.headless
    /\ h.login = "unauthenticated"
    /\ pc = "mark"
    /\ LastReport.status = "FAILED"

(***************************************************************************)
(* C11.  The interactive login wait ends, and ends in one of two ways:     *)
(* confirmed (by the overlay button or by the passive check) or timed out, *)
(* the latter only at a timeout test that finds more than the 15 minutes   *)
(* elapsed.  No turn of the loop starts after such a test.  A timed out    *)
(* wait makes the job FAILED with no ledger load and no row attempted.     *)
(***************************************************************************)
Waiting == pc = "login" /\ ~bot.headless

C11_InteractiveWaitEnds ==
    /\ [](Waiting => (bot.elapsed <= timeout_seconds + 1 /\ h.login = "none"))
    /\ [](~bot.headless => h.login \in {"none", "confirmed", "timed_out"})
    /\ [][(Waiting /\ ~Waiting') =>
             \/ h'.login = "confirmed" /\ pc' = "load"
             \/ /\ h'.login = "timed_out"
                /\ \E d \in ConfirmSeconds : bot.elapsed + d > timeout_seconds]_vars
    /\ [](h.login = "timed_out" =>
             /\ bot.exit_code = 2
             /\ h.loads = 0
             /\ h.calls = <<>>
             /\ Reported => LastReport.status = "FAILED")
    /\ (Waiting ~> (h.login \in {"confirmed", "timed_out"}))

C11_Witness ==
    /\ h.login = "timed_out"
    /\ pc = "mark"
    /\ LastReport.status = "FAILED"
    /\ h.checks = 2

(***************************************************************************)
(* C12.  For a job whose bot run is started, cleanup() runs exactly once,  *)
(* whichever way the run ends (login failure, missing columns, empty       *)
(* WorkSet, all rows done, an exception): not before the run returns,      *)
(* once when it has returned, and the driver is then no longer up.         *)
(***************************************************************************)
InRun ==
    pc \in {"bot_run", "navigate", "login", "load", "item", "attempt", "backoff",
            "teardown", "item_done", "pace", "summary", "cleanup"}

AfterRun == pc \in {"collect", "mark", "finished"}

C12_CleanupOnce ==
    /\ h.cleanups <= 1
    /\ InRun => h.cleanups = 0
    /\ AfterRun =>
          /\ h.cleanups = 1
          /\ bot.driver # "up"
          /\ bot.exit_code \in 0..4

C12_Witness ==
    /\ pc = "collect"
    /\ h.cleanups = 1
    /\ h.loads = 1
    /\ bot.exit_code = 1
    /\ bot.driver = "quit"

(***************************************************************************)
(* C13.  For a non-empty WorkSet process_single_post is called once for    *)
(* every row, in WorkSet order (the order of the source), and one result   *)
(* record is kept per row in the same order; a row whose retries are       *)
(* exhausted does not keep the rows after it from being attempted.         *)
(***************************************************************************)
DfIdx == [k \in 1..Len(bot.df) |-> bot.df[k].idx]

RecIdx == [k \in 1..Len(bot.results) |-> bot.results[k].original_index]

IsPrefix(a, b) == Len(a) <= Len(b) /\ \A k \in 1..Len(a) : a[k] = b[k]

C13_EveryItemOnceInOrder ==
    /\ \A k, l \in 1..Len(DfIdx) : k < l => DfIdx[k] < DfIdx[l]
    /\ IsPrefix(h.calls, DfIdx)
    /\ IsPrefix(RecIdx, h.calls)
    /\ Len(h.calls) - Len(RecIdx) \in {0, 1}
    /\ \A k \in 1..Len(bot.results) : bot.results[k].post_number = k
    /\ (pc = "summary" \/ bot.exit_code \in {0, 3}) =>
          /\ Len(DfIdx) > 0
          /\ h.calls = DfIdx
          /\ RecIdx = DfIdx

C13_Witness ==
    /\ pc = "summary"
    /\ Len(bot.results) = 2
    /\ bot.results[1].status = "failed"
    /\ bot.results[2].status = "success"
    /\ h.calls = DfIdx

(***************************************************************************)
(* C14.  When the WorkSet load returns is empty, no row is attempted, no   *)
(* result record is kept, no ledger row is marked and no pacing sleep is   *)
(* taken; the run returns code 4, which a batch without a success never    *)
(* returns (it returns 3), and the job is reported COMPLETED.              *)
(***************************************************************************)
C14_EmptyWorkSet ==
    /\ WorkSetEmpty =>
          /\ h.calls = <<>>
          /\ bot.results = <<>>
          /\ h.marks = {}
          /\ h.paces = 0
          /\ bot.exit_code = 4
          /\ \A r \in 1..NRows(file_bytes) : \A i \in 1..NCols(bot.original_df) :
                bot.original_df.rows[r][i] =
                    IF i <= NCols(file_bytes) THEN file_bytes.rows[r][i] ELSE Txt(T_empty)
          /\ Reported => LastReport.status = "COMPLETED"
    /\ (bot.exit_code = 4) => WorkSetEmpty
    /\ (bot.exit_code = 3) => (bot.results # <<>> /\ ~AnySuccess)

C14_Witness ==
    /\ WorkSetEmpty
    /\ NRows(file_bytes) = 2
    /\ pc = "mark"
    /\ LastReport.status = "COMPLETED"
    /\ bot.exit_code = 4

(***************************************************************************)
(* C15.  Once the first-run marker exists, every bot run started afterwards *)
(* is headless, also the runs of later jobs of the process that wrote the   *)
(* marker.  (The marker is written after a job's run, so a run in progress  *)
(* with the marker present is the run of a later job.)                      *)
(***************************************************************************)
C15_HeadlessOnceMarked ==
    (marker /\ InRun /\ pc # "bot_run") => bot.headless

(***************************************************************************)
(* C16.  The first-run marker is written only after the terminal report    *)
(* (COMPLETED or FAILED) of the job in hand has been sent; it is never     *)
(* removed, and a step of a job that has sent no terminal report, the      *)
(* killing of the process included, leaves the marker as it is.            *)
(***************************************************************************)
C16_MarkerAfterTerminalReport ==
    [][(marker' # marker) =>
          /\ marker'
          /\ pc = "mark"
          /\ Len(h.reports) = 2
          /\ Terminal(LastReport)]_vars

C16_Witness ==
    /\ marker
    /\ runs = 1
    /\ crashes = 0
    /\ pc = "finished"
    /\ LastReport.status = "FAILED"

(***************************************************************************)
(* C17.  The first-run marker records a completed interactive session:     *)
(* when the first job a worker ever ran writes the marker, that job's      *)
(* interactive login was confirmed (a job whose login failed or timed out, *)
(* or whose session never started, does not write it).                     *)
(***************************************************************************)
C17_MarkerMeansConfirmed ==
    [][(marker' /\ ~marker /\ runs = 1 /\ crashes = 0) =>
          (~bot.headless /\ h.login = "confirmed")]_vars

(***************************************************************************)
(* C18.  The idle-poll counter is 0 when the worker returns to polling     *)
(* after any job it had in hand, a job whose download failed included; and *)
(* the counter changes only by a reset to 0 or by one more on a poll that  *)
(* returns no job.                                                         *)
(***************************************************************************)
C18_PollCountReset ==
    [][/\ (job # 0 /\ job' = 0 /\ pc' = "poll") => poll_count' = 0
       /\ (poll_count' # poll_count) =>
             \/ poll_count' = 0
             \/ (pc = "poll" /\ job = 0 /\ poll_count' = poll_count + 1)]_vars

(***************************************************************************)
(* C19.  For a readable file in which no column is target-like or no       *)
(* column is payload-like, the load fails with an error that names each    *)
(* missing column (and no other), no row is attempted, no ledger row is    *)
(* marked, and the job is reported FAILED.                                 *)
(***************************************************************************)
NoTarget(ds) == ds.ok /\ \A i \in 1..NCols(ds) : ~IsUrlLike(_normalize(ds.cols[i]))

NoPayload(ds) == ds.ok /\ \A i \in 1..NCols(ds) : ~IsCommentLike(_normalize(ds.cols[i]))

Named == {bot.missing[k] : k \in 1..Len(bot.missing)}

C19_MissingColumns ==
    (h.loads > 0 /\ (NoTarget(file_bytes) \/ NoPayload(file_bytes))) =>
        /\ bot.exit_code = 1
        /\ ("URL-like column" \in Named) <=> NoTarget(file_bytes)
        /\ ("comment-like column" \in Named) <=> NoPayload(file_bytes)
        /\ h.calls = <<>>
        /\ bot.results = <<>>
        /\ h.marks = {}
        /\ bot.original_df = file_bytes
        /\ Reported => LastReport.status = "FAILED"

C19_Witness ==
    /\ h.loads > 0
    /\ NoTarget(file_bytes)
    /\ NoPayload(file_bytes)
    /\ NRows(file_bytes) = 2
    /\ Len(bot.missing) = 2
    /\ pc = "mark"
    /\ LastReport.status = "FAILED"

(***************************************************************************)
(* C20.  When the run fails before the batch starts (login failure or      *)
(* timeout, missing columns, unreadable bytes, no driver: exit codes 2 and *)
(* 1), the file uploaded with the FAILED report, if any, has every row of  *)
(* the source with every source cell, the status cell included, as it was  *)
(* downloaded; without an upload the queue's file stays the source.        *)
(***************************************************************************)
SameCells(up, src) ==
    /\ NRows(up) = NRows(src)
    /\ NCols(up) >= NCols(src)
    /\ \A r \in 1..NRows(src) : \A i \in 1..NCols(up) :
          up.rows[r][i] = IF i <= NCols(src) THEN src.rows[r][i] ELSE NaN

C20_FailureLeavesFileAlone ==
    (Reported /\ bot.exit_code \in {1, 2}) =>
        /\ LastReport.status = "FAILED"
        /\ h.calls = <<>>
        /\ LastReport.file = bot.has_ledger
        /\ LastReport.file => SameCells(Serialized, file_bytes)
        /\ (LastReport.file /\ LastReport.delivered) => srv.file = Serialized
        /\ SameCells(srv.file, file_bytes)

C20_Witness ==
    /\ Reported
    /\ bot.exit_code = 1
    /\ LastReport.file
    /\ LastReport.delivered
    /\ NRows(file_bytes) = 1
    /\ \E i \in 1..NCols(file_bytes) : file_bytes.rows[1][i] = Txt(T_Y)

(***************************************************************************)
(* C21.  Round trip: when a run that marked some row as a success          *)
(* serializes the ledger, loading the serialized bytes again succeeds and  *)
(* finds the status column in the file (it creates none); every source     *)
(* cell is as it was, except the status cell of a row with a record; the   *)
(* status cell of a success row holds Y and the row is not in the new      *)
(* WorkSet.                                                                *)
(***************************************************************************)
C21_RoundTrip ==
    (pc = "collect" /\ bot.has_ledger /\ AnySuccess) =>
        \E again \in {load_spreadsheet(Serialized)} :
            /\ again.outcome = "ok"
            /\ ~again.created
            /\ \A r \in 1..NRows(file_bytes) : \A i \in 1..NCols(file_bytes) :
                  \/ Serialized.rows[r][i] = file_bytes.rows[r][i]
                  \/ (r - 1) \in Recorded /\ i \in ColsNamed(Serialized, again.status_col)
            /\ \A k \in 1..Len(bot.results) :
                  bot.results[k].status = "success" =>
                      /\ bot.results[k].original_index \notin Indexes(again.workset)
                      /\ \A i \in ColsNamed(Serialized, again.status_col) :
                            Serialized.rows[bot.results[k].original_index + 1][i] = Txt(T_Y)

(***************************************************************************)
(* C22.  process_single_post never raises: once entered for a row it goes  *)
(* from attempt to attempt and returns a result, whatever fails in its     *)
(* attempts (window.open, driver.get, a step of post_comment, close()).    *)
(* The result says success only when an attempt submitted the reply, and   *)
(* otherwise says failed, after max_retries attempts, with a message.      *)
(***************************************************************************)
InItem == {"attempt", "backoff", "teardown"}

C22_NeverRaises ==
    [][/\ (pc \in InItem) => (pc' \in InItem \cup {"item_done"})
       /\ (pc \in InItem /\ pc' = "item_done") =>
             /\ bot'.result.status \in {"success", "failed"}
             /\ (bot'.result.status = "success") => (CurrentItem.idx \in posted')
             /\ (bot'.result.status = "failed") =>
                   /\ h'.tries = max_retries
                   /\ bot'.result.message \in {"error", "failed_to_post"}]_vars

C22_Witness ==
    /\ pc = "item_done"
    /\ bot.result.status = "failed"
    /\ bot.result.message = "failed_to_post"
    /\ bot.ctx_open > 0

(***************************************************************************)
(* C23.  The worker has at most one job in hand.  It has none while it     *)
(* polls, takes one only from polling, and from there until the terminal   *)
(* report of that job is sent it sends no poll request and takes no other  *)
(* job; the job is given up only after its terminal report.  (A killed     *)
(* process sends nothing more; the process started after it is another     *)
(* worker.)                                                                *)
(***************************************************************************)
C23_OneJobAtATime ==
    [][/\ (pc \in {"start", "poll"}) => (job = 0)
       /\ (job # 0 /\ Terminals(h.reports) = {} /\ pc # "crashed") =>
             /\ job' = job
             /\ runs' = runs
             /\ poll_count' = poll_count
       /\ (job' # job /\ job' # 0) => (job = 0 /\ pc = "poll" /\ pc' = "acquired")
       /\ (job # 0 /\ job' = 0 /\ pc # "crashed") =>
             (Cardinality(Terminals(h.reports)) = 1 /\ pc' = "poll")]_vars

C23_Witness ==
    /\ runs = 2
    /\ job # 0
    /\ pc = "attempt"
    /\ h.reports # <<>>
    /\ \A j \in Jobs : srv.status[j] # "NONE"

(***************************************************************************)
(* C24.  The per-item window an attempt opened is closed before the next   *)
(* attempt of the row and before the next row: at most one per-item window *)
(* is open at any time, none is open when an attempt starts, and none is   *)
(* open when the row is done and when the batch ends.                      *)
(***************************************************************************)
BetweenAttempts == {"attempt", "item_done", "pace", "item", "summary"}

C24_ContextTornDown ==
    /\ bot.ctx_open <= 1
    /\ (pc \in BetweenAttempts) => (bot.ctx_open = 0)

(***************************************************************************)
(* C25.  Once the post button has been clicked in an attempt, the attempt  *)
(* is a success whatever the look for the posted reply gives: a marker     *)
(* found, none found within the wait, or an error of the look itself.  The *)
(* loop of attempts then ends (break) and the result of the row says       *)
(* success.                                                                *)
(***************************************************************************)
C25_ConfirmationAdvisory ==
    (h.verify # "none") =>
        /\ pc = "teardown"
        /\ bot.result = [status |-> "success", message |-> "posted"]
        /\ CurrentItem.idx \in posted

C25_Witness ==
    /\ pc = "teardown"
    /\ h.verify = "no_marker"
    /\ bot.result.status = "success"
    /\ h.tries = 2

(***************************************************************************)
(* C26.  For a WorkSet of n rows the batch takes n - 1 pacing sleeps, one  *)
(* after each row but the last.  Each lasts the delay of the job plus 0.5  *)
(* to 1.5 s, and is taken after the row's result is kept, its ledger row   *)
(* marked and its progress line sent, and before the first attempt of the  *)
(* next row.  (Times in tenths of a second.)                               *)
(***************************************************************************)
C26_PacingBetweenItems ==
    /\ [](/\ (pc \in {"item", "attempt", "backoff", "teardown", "item_done"}) =>
                (h.paces = bot.i - 1 /\ Len(bot.results) = bot.i - 1)
          /\ (pc = "pace") =>
                (h.paces = bot.i - 1 /\ Len(bot.results) = bot.i /\ bot.i < Len(bot.df))
          /\ (pc = "summary") =>
                (h.paces = Len(bot.df) - 1 /\ Len(bot.results) = Len(bot.df)))
    /\ [][(h'.paces > h.paces) =>
             /\ h'.paces = h.paces + 1
             /\ pc = "pace" /\ pc' = "item"
             /\ bot.delay = Delay(job)
             /\ h'.slept \in (bot.delay + 5)..(bot.delay + 15)
             /\ CurrentItem.idx \in h.marks
             /\ bot.results[bot.i].original_index = CurrentItem.idx
             /\ h.log \in {"sent", "lost"}
             /\ Len(h.calls) = bot.i
             /\ bot'.i = bot.i + 1]_vars

C26_Witness ==
    /\ pc = "item"
    /\ h.paces = 1
    /\ h.slept = 25
    /\ bot.i = 2
    /\ Len(bot.df) = 2

(***************************************************************************)
(* C27.  When the file loaded has a column whose normal form is one of the *)
(* aliases of the target (of the payload), the column the loader resolves  *)
(* for the target (for the payload) is a column whose normal form is an    *)
(* alias, also when a column that only the substring test accepts stands   *)
(* before it.                                                              *)
(***************************************************************************)
NormalForms(ds) ==
    {_normalize(StrippedCols(ds)[KeptIdx(ds)[k]]) : k \in 1..Len(KeptIdx(ds))}

C27_AliasBeforeHeuristic ==
    (h.loads > 0 /\ file_bytes.ok) =>
        \E hd \in {DetectColumns(file_bytes)} :
            /\ (NormalForms(file_bytes) \cap UrlAliases # {}) =>
                  (hd.url_col # None /\ _normalize(hd.url_col) \in UrlAliases)
            /\ (NormalForms(file_bytes) \cap CommentAliases # {}) =>
                  (hd.comment_col # None /\ _normalize(hd.comment_col) \in CommentAliases)

(***************************************************************************)
(* C28.  A log request that fails in transport changes nothing: the step   *)
(* that sent it (the retry line of the backoff, the progress line after a  *)
(* row) leaves the bot exactly as it does when the request succeeds, the   *)
(* attempts go on, the result is kept, the ledger row is marked and the    *)
(* batch goes on to the next row or to its summary.                        *)
(***************************************************************************)
C28_LogFailureSwallowed ==
    [][/\ (pc = "backoff") =>
             /\ pc' = "teardown"
             /\ bot' = bot
             /\ posted' = posted
             /\ h'.tries = h.tries
       /\ (pc = "item_done") =>
             /\ pc' = IF bot.i < Len(bot.df) THEN "pace" ELSE "summary"
             /\ Len(bot'.results) = Len(bot.results) + 1
             /\ bot'.results[Len(bot'.results)].status = bot.result.status
             /\ bot'.original_df =
                   update_excel_file(bot.original_df, bot.status_col_name, CurrentItem.idx,
                                     IF bot.result.status = "success" THEN T_Y ELSE T_N)
             /\ bot'.exit_code = bot.exit_code
             /\ h'.marks = h.marks \cup {CurrentItem.idx}
       /\ (h'.log = "lost") => (pc' \in {"teardown", "pace", "summary"})]_vars

C28_Witness ==
    /\ h.log = "lost"
    /\ pc = "summary"
    /\ AnySuccess
    /\ Len(bot.results) = 2

(***************************************************************************)
(* C29.  The worker leaves its loop exactly when the poll counter has      *)
(* reached MAX_POLLS (1000): it leaves from the head of the loop, with no  *)
(* job in hand, never earlier, and at the ceiling it polls no more.  When  *)
(* from some point on no poll returns a job (here: the worker takes at     *)
(* most one job), it does leave.                                           *)
(***************************************************************************)
C29_ExitAtCeiling ==
    /\ [][/\ (pc' = "exited" /\ pc # "exited") =>
                (pc = "poll" /\ job = 0 /\ poll_count = MAX_POLLS)
          /\ (pc = "poll" /\ poll_count = MAX_POLLS) =>
                (pc' \in {"poll", "exited"} /\ poll_count' = poll_count /\ runs' = runs)
          /\ (job # 0) => (pc' # "exited")]_vars
    /\ [](poll_count <= MAX_POLLS)
    /\ <>(pc = "exited")

C29_Witness ==
    /\ pc = "exited"
    /\ poll_count = MAX_POLLS
    /\ runs = 1
    /\ \E j \in Jobs : srv.status[j] = "COMPLETED"

(***************************************************************************)
(* C30.  The teardown of an attempt closes only a per-item window: from    *)
(* the login to the end of the batch the main window is open, also after   *)
(* an attempt in which window.open failed, and an attempt always finds a   *)
(* window to open its per-item window from.                                *)
(***************************************************************************)
InBatch == {"load", "item", "attempt", "backoff", "teardown", "item_done", "pace", "summary"}

C30_MainWindowStaysOpen ==
    (pc \in InBatch) => (bot.main_open /\ bot.cur # "none")


(***************************************************************************)
(* C31.  For every dataset on which the load succeeds, the columns it      *)
(* resolves as target reference, payload and status are three distinct     *)
(* columns: in particular the payload column is never the status column,   *)
(* whatever the order of the columns.                                      *)
(***************************************************************************)
C31_DistinctColumns ==
    (h.loads > 0 /\ file_bytes.ok) =>
        \E r \in {load_spreadsheet(file_bytes)} :
            (r.outcome = "ok") =>
                /\ r.url_col # r.comment_col
                /\ r.url_col # r.status_col
                /\ r.comment_col # r.status_col


(***************************************************************************)
(* C32.  A transport error while polling the queue is treated exactly like *)
(* a poll that returns no job: every poll that ends without a job, for     *)
(* either reason, adds one to the idle-poll counter, sends no status       *)
(* report, takes no job in hand, leaves the queue and the bot alone and    *)
(* returns the worker to the head of the polling loop; and the poll ends   *)
(* for the reason "error" exactly when a pending job was there to be had.  *)
(***************************************************************************)
IdlePolled ==
    \/ poll_count' > poll_count
    \/ (h'.poll # h.poll /\ h'.poll # "none")

C32_TransportErrorLikeNoJob ==
    [][IdlePolled =>
          /\ pc = "poll" /\ pc' = "poll"
          /\ poll_count' = poll_count + 1
          /\ job = 0 /\ job' = 0
          /\ runs' = runs
          /\ srv' = srv
          /\ h'.reports = h.reports
          /\ h' = [h EXCEPT !.poll = h'.poll]
          /\ h'.poll \in {"empty", "error"}
          /\ (h'.poll = "error") <=> (\E j \in Jobs : srv.status[j] = "PENDING")
          /\ UNCHANGED <<is_first_run, marker, file_bytes, bot, posted>>]_vars

C32_Witness ==
    /\ pc = "poll"
    /\ h.poll = "error"
    /\ poll_count = 1
    /\ job = 0
    /\ h.reports = <<>>
    /\ \E j \in Jobs : srv.status[j] = "PENDING"


(***************************************************************************)
(* C33.  Within one job each work item is submitted at most once.  An      *)
(* attempt is made only for an item that has no success yet and that was   *)
(* not submitted before in the job, and it is one of at most max_retries;  *)
(* an attempt in which the post button was clicked is reported as success  *)
(* and ends the loop, so that no further attempt is made for the item; and *)
(* an item that succeeded on attempt k has made exactly k attempts.        *)
(***************************************************************************)
Attempted == h'.tries = h.tries + 1

C33_SubmittedAtMostOnce ==
    /\ [][Attempted =>
             /\ bot.result.status # "success"
             /\ CurrentItem.idx \notin posted
             /\ h.tries < max_retries
             /\ h.tries = bot.attempt
             /\ (CurrentItem.idx \in posted') =>
                   (bot'.result.status = "success" /\ pc' = "teardown")]_vars
    /\ [][(pc = "teardown" /\ bot.result.status = "success") =>
             (pc' = "item_done" /\ h'.tries = h.tries /\ posted' = posted)]_vars
    /\ []((pc = "item_done" /\ bot.result.status = "success") =>
             (h.tries = bot.attempt + 1 /\ h.tries <= max_retries))

C33_Witness ==
    /\ pc = "item_done"
    /\ bot.result.status = "success"
    /\ h.tries = 2
    /\ CurrentItem.idx \in posted
    /\ Len(bot.results) = 1

=============================================================================
